---- MODULE Spec2Model ----
(***************************************************************************)
(* Model of filter_plugins/config_comparison.py (class FilterModule):      *)
(* extract_config_sections, normalize_config and compare_with_baseline.    *)
(*                                                                         *)
(* A Python str is a sequence of one-character strings.  A value that may  *)
(* be None is a record: None, or Some(v) holding the value v.              *)
(***************************************************************************)
EXTENDS Integers, Sequences, FiniteSets, TLC

VARIABLES
    config,               \* argument of extract_config_sections / normalize_config
    network_os,           \* the platform tag
    running_config_lines, \* argument of compare_with_baseline
    baseline_lines,       \* argument of compare_with_baseline
    extracted,            \* value returned by extract_config_sections
    matches,              \* the re.findall matches behind it, as spans of config
    lines,                \* value returned by normalize_config
    relines,              \* normalize_config of the joined `lines`
    diff,                 \* value returned by compare_with_baseline
    pc                    \* which call has been made

vars == <<config, network_os, running_config_lines, baseline_lines,
          extracted, matches, lines, relines, diff, pc>>

-----------------------------------------------------------------------------
(* Bounds of the model.                                                    *)

MaxChars == 5      \* length of the texts given to normalize_config
MaxCfgLines == 3   \* number of lines of the texts given to extract_config_sections
MaxRunning == 2    \* length of the running sequences
MaxBaseline == 3   \* length of the baseline sequences

-----------------------------------------------------------------------------
(* Python values.                                                          *)

None == [none |-> TRUE]
Some(v) == [none |-> FALSE, val |-> v]

\* `not x` for x a str, a list or None
Falsy(x) == x.none \/ x.val = <<>>

NL == "\n"

\* the characters str.strip() and str.split() treat as whitespace
Whitespace == {" ", "\t", "\n", "\r", "\f"}

\* the characters of the regex class [a-z]
Lower == {"a", "b", "c", "d", "e", "f", "g", "h", "i", "j", "k", "l", "m",
          "n", "o", "p", "q", "r", "s", "t", "u", "v", "w", "x", "y", "z"}

\* s[i:] with i counted from 1
From(s, i) == SubSeq(s, i, Len(s))

\* s.startswith(p)
StartsWith(s, p) == Len(s) >= Len(p) /\ SubSeq(s, 1, Len(p)) = p

\* s.startswith(p, i - 1): p occurs in s at position i
OccursAt(s, p, i) == i + Len(p) - 1 <= Len(s) /\ SubSeq(s, i, i + Len(p) - 1) = p

RECURSIVE LStrip(_)
LStrip(s) ==
    IF s # <<>> /\ Head(s) \in Whitespace THEN LStrip(Tail(s)) ELSE s

RECURSIVE RStrip(_)
RStrip(s) ==
    IF s # <<>> /\ s[Len(s)] \in Whitespace
    THEN RStrip(SubSeq(s, 1, Len(s) - 1)) ELSE s

\* s.lstrip() in the place of s.strip()
Strip_Left(s) == LStrip(s)

\* s.strip()
Strip(s) == RStrip(LStrip(s))

\* s.split(sep) for a one-character sep: always at least one piece
RECURSIVE SplitOn(_, _)
SplitOn(s, sep) ==
    IF \A i \in 1..Len(s) : s[i] # sep
    THEN <<s>>
    ELSE LET i == CHOOSE k \in 1..Len(s) :
                      s[k] = sep /\ \A j \in 1..(k - 1) : s[j] # sep
         IN  <<SubSeq(s, 1, i - 1)>> \o SplitOn(From(s, i + 1), sep)

\* sep.join(parts)
RECURSIVE Join(_, _)
Join(parts, sep) ==
    IF parts = <<>> THEN <<>>
    ELSE IF Len(parts) = 1 THEN parts[1]
    ELSE parts[1] \o sep \o Join(Tail(parts), sep)

\* s.split(): the maximal runs of non-whitespace characters
RECURSIVE Split(_)
Split(s) ==
    LET t == LStrip(s)
    IN  IF t = <<>> THEN <<>>
        ELSE LET n == IF \E k \in 1..Len(t) : t[k] \in Whitespace
                      THEN (CHOOSE k \in 1..Len(t) :
                                t[k] \in Whitespace
                                /\ \A j \in 1..(k - 1) : t[j] \notin Whitespace) - 1
                      ELSE Len(t)
             IN  <<SubSeq(t, 1, n)>> \o Split(From(t, n + 1))

-----------------------------------------------------------------------------
(* normalize_config                                                        *)

\* the loop body's test: the stripped line is kept
KeptLine(line) ==
    line # <<>> /\ ~StartsWith(line, <<"!">>) /\ ~StartsWith(line, <<"#">>)

\* the loop with the test made on the line before it is stripped
RECURSIVE NormalizeLines_RawTest(_)
NormalizeLines_RawTest(raw) ==
    IF raw = <<>> THEN <<>>
    ELSE (IF KeptLine(Head(raw)) THEN <<Strip(Head(raw))>> ELSE <<>>)
             \o NormalizeLines_RawTest(Tail(raw))

RECURSIVE NormalizeLines(_)
NormalizeLines(raw) ==
    IF raw = <<>> THEN <<>>
    ELSE LET line == Strip(Head(raw))
         IN  (IF KeptLine(line) THEN <<line>> ELSE <<>>)
                 \o NormalizeLines(Tail(raw))

normalize_config(cfg, os) ==
    IF Falsy(cfg) THEN <<>>
    ELSE NormalizeLines(SplitOn(cfg.val, NL))

-----------------------------------------------------------------------------
(* compare_with_baseline                                                   *)

\* x in xs, for a list xs
In(x, xs) == \E i \in 1..Len(xs) : xs[i] = x

\* line.split()[0] if line.split() else ""
FirstWord(line) == IF Split(line) # <<>> THEN Split(line)[1] ELSE <<>>

\* the check with split()[0] taken of a line without tokens, which raises
\* and so answers False
_is_similar_config_NoEmpty(baseline_line, running_line, os) ==
    /\ Split(baseline_line) # <<>>
    /\ Split(running_line) # <<>>
    /\ Split(baseline_line)[1] = Split(running_line)[1]

\* str.split never raises on a str, so the except
\* branch is not taken for the lines of the model
_is_similar_config(baseline_line, running_line, os) ==
    FirstWord(baseline_line) = FirstWord(running_line)

\* the inner loop without its break: every similar running line is paired
RECURSIVE ScanRunning_NoBreak(_, _, _)
ScanRunning_NoBreak(baseline_line, running, os) ==
    IF running = <<>>
    THEN [partial_match |-> FALSE, different |-> <<>>]
    ELSE LET running_line == Head(running)
             rest == ScanRunning_NoBreak(baseline_line, Tail(running), os)
         IN  IF _is_similar_config(baseline_line, running_line, os)
             THEN [partial_match |-> TRUE,
                   different |->
                       (IF baseline_line # running_line
                        THEN <<[baseline |-> baseline_line,
                                running |-> running_line]>>
                        ELSE <<>>) \o rest.different]
             ELSE rest

\* the inner loop keeping the last similar running line, not the first
RECURSIVE ScanRunning_Last(_, _, _)
ScanRunning_Last(baseline_line, running, os) ==
    IF running = <<>>
    THEN [partial_match |-> FALSE, different |-> <<>>]
    ELSE LET running_line == running[Len(running)]
         IN  IF _is_similar_config(baseline_line, running_line, os)
             THEN [partial_match |-> TRUE,
                   different |->
                       IF baseline_line # running_line
                       THEN <<[baseline |-> baseline_line,
                               running |-> running_line]>>
                       ELSE <<>>]
             ELSE ScanRunning_Last(baseline_line,
                                   SubSeq(running, 1, Len(running) - 1), os)

\* the inner loop over running_config_lines, up to its break
RECURSIVE ScanRunning(_, _, _)
ScanRunning(baseline_line, running, os) ==
    IF running = <<>>
    THEN [partial_match |-> FALSE, different |-> <<>>]
    ELSE LET running_line == Head(running)
         IN  IF _is_similar_config(baseline_line, running_line, os)
             THEN [partial_match |-> TRUE,
                   different |->
                       IF baseline_line # running_line
                       THEN <<[baseline |-> baseline_line,
                               running |-> running_line]>>
                       ELSE <<>>]
             ELSE ScanRunning(baseline_line, Tail(running), os)

\* the outer loop over baseline_lines, from the lists built so far
RECURSIVE CompareLoop(_, _, _, _)
CompareLoop(baseline, running, os, acc) ==
    IF baseline = <<>> THEN acc
    ELSE LET baseline_line == Head(baseline)
             scan == ScanRunning(baseline_line, running, os)
             next ==
                 IF ~In(baseline_line, running)
                 THEN [missing_configs |->
                           acc.missing_configs \o
                               (IF ~scan.partial_match
                                THEN <<baseline_line>> ELSE <<>>),
                       different_configs |->
                           acc.different_configs \o scan.different]
                 ELSE acc
         IN  CompareLoop(Tail(baseline), running, os, next)

\* str(n) for n >= 0, as an f-string formats len(...)
RECURSIVE Str(_)
Str(n) ==
    LET digit == <<"0", "1", "2", "3", "4", "5", "6", "7", "8", "9">>
    IN  IF n < 10 THEN digit[n + 1]
        ELSE Str(n \div 10) \o digit[(n % 10) + 1]

\* "; ".join(parts), parts a list of TLA+ strings
RECURSIVE JoinParts(_)
JoinParts(parts) ==
    IF Len(parts) = 1 THEN parts[1]
    ELSE parts[1] \o "; " \o JoinParts(Tail(parts))

\* the summary with the clause of the differences put first
_generate_summary_Swapped(missing, extra, different) ==
    LET summary_parts ==
            (IF different # <<>>
             THEN <<"Found " \o Str(Len(different)) \o " configuration difference(s)">>
             ELSE <<>>)
            \o
            (IF missing # <<>>
             THEN <<"Missing " \o Str(Len(missing)) \o " baseline configuration(s)">>
             ELSE <<>>)
    IN  IF summary_parts = <<>>
        THEN "Configuration matches baseline"
        ELSE JoinParts(summary_parts)

\* _generate_summary(missing, extra, different)
_generate_summary(missing, extra, different) ==
    LET summary_parts ==
            (IF missing # <<>>
             THEN <<"Missing " \o Str(Len(missing)) \o " baseline configuration(s)">>
             ELSE <<>>)
            \o
            (IF different # <<>>
             THEN <<"Found " \o Str(Len(different)) \o " configuration difference(s)">>
             ELSE <<>>)
    IN  IF summary_parts = <<>>
        THEN "Configuration matches baseline"
        ELSE JoinParts(summary_parts)

\* the comparison with has_differences taken from missing_configs alone
compare_with_baseline_MissingOnly(running, baseline, os) ==
    LET rs == IF Falsy(running) THEN <<>> ELSE running.val
        bs == IF Falsy(baseline) THEN <<>> ELSE baseline.val
        out == CompareLoop(bs, rs, os,
                           [missing_configs |-> <<>>, different_configs |-> <<>>])
    IN  [has_differences |-> out.missing_configs # <<>>,
         missing_configs |-> out.missing_configs,
         extra_configs |-> <<>>,
         different_configs |-> out.different_configs,
         summary |-> _generate_summary(out.missing_configs, <<>>,
                                       out.different_configs)]

compare_with_baseline(running, baseline, os) ==
    LET rs == IF Falsy(running) THEN <<>> ELSE running.val
        bs == IF Falsy(baseline) THEN <<>> ELSE baseline.val
        out == CompareLoop(bs, rs, os,
                           [missing_configs |-> <<>>, different_configs |-> <<>>])
    IN  [has_differences |->
             (out.missing_configs # <<>> \/ out.different_configs # <<>>),
         missing_configs |-> out.missing_configs,
         extra_configs |-> <<>>,
         different_configs |-> out.different_configs,
         summary |-> _generate_summary(out.missing_configs, <<>>,
                                     out.different_configs)]

-----------------------------------------------------------------------------
(* extract_config_sections                                                 *)

\* The literal texts of the patterns.

\* "service password-encryption"
KwServicePasswordEncryption ==
    <<"s", "e", "r", "v", "i", "c", "e", " ", "p", "a", "s", "s", "w", "o",
      "r", "d", "-", "e", "n", "c", "r", "y", "p", "t", "i", "o", "n">>

\* "banner login"
KwBannerLogin ==
    <<"b", "a", "n", "n", "e", "r", " ", "l", "o", "g", "i", "n">>

\* "line con 0"
KwLineCon0 ==
    <<"l", "i", "n", "e", " ", "c", "o", "n", " ", "0">>

\* "line vty"
KwLineVty ==
    <<"l", "i", "n", "e", " ", "v", "t", "y">>

\* "snmp-server community"
KwSnmpServerCommunity ==
    <<"s", "n", "m", "p", "-", "s", "e", "r", "v", "e", "r", " ", "c", "o",
      "m", "m", "u", "n", "i", "t", "y">>

\* "tacacs-server host"
KwTacacsServerHost ==
    <<"t", "a", "c", "a", "c", "s", "-", "s", "e", "r", "v", "e", "r", " ",
      "h", "o", "s", "t">>

\* "header login"
KwHeaderLogin ==
    <<"h", "e", "a", "d", "e", "r", " ", "l", "o", "g", "i", "n">>

\* "line aux"
KwLineAux ==
    <<"l", "i", "n", "e", " ", "a", "u", "x">>

\* "hwtacacs scheme"
KwHwtacacsScheme ==
    <<"h", "w", "t", "a", "c", "a", "c", "s", " ", "s", "c", "h", "e", "m",
      "e">>

\* "snmp-agent community"
KwSnmpAgentCommunity ==
    <<"s", "n", "m", "p", "-", "a", "g", "e", "n", "t", " ", "c", "o", "m",
      "m", "u", "n", "i", "t", "y">>

\* "user-interface console"
KwUserInterfaceConsole ==
    <<"u", "s", "e", "r", "-", "i", "n", "t", "e", "r", "f", "a", "c", "e",
      " ", "c", "o", "n", "s", "o", "l", "e">>

\* "user-interface vty"
KwUserInterfaceVty ==
    <<"u", "s", "e", "r", "-", "i", "n", "t", "e", "r", "f", "a", "c", "e",
      " ", "v", "t", "y">>

\* "hwtacacs-server"
KwHwtacacsServer ==
    <<"h", "w", "t", "a", "c", "a", "c", "s", "-", "s", "e", "r", "v", "e",
      "r">>

\* "line"
KwLine ==
    <<"l", "i", "n", "e">>

\* "user-interface"
KwUserInterface ==
    <<"u", "s", "e", "r", "-", "i", "n", "t", "e", "r", "f", "a", "c", "e">>

(* A pattern of the tables is a literal keyword followed either by `.*`,   *)
(* which under re.DOTALL runs to the end of the text, or by a lazy `.*?`   *)
(* and a lookahead (?=...) of alternatives.  An alternative is a literal,  *)
(* a literal followed by a character of [a-z], or \Z.                      *)

Greedy(kw) == [start |-> kw, lazy |-> FALSE, until |-> <<>>]
Lazy(kw, alts) == [start |-> kw, lazy |-> TRUE, until |-> alts]

AltLit(l) == [lit |-> l, lower |-> FALSE, eoi |-> FALSE]
AltNLLower == [lit |-> <<NL>>, lower |-> TRUE, eoi |-> FALSE]
AltEnd == [lit |-> <<>>, lower |-> FALSE, eoi |-> TRUE]

CiscoPatterns ==
    << Greedy(KwServicePasswordEncryption),
       Lazy(KwBannerLogin, <<AltNLLower, AltLit(<<NL, "!">>), AltEnd>>),
       Lazy(KwLineCon0, <<AltLit(<<NL>> \o KwLine), AltNLLower, AltEnd>>),
       Lazy(KwLineVty, <<AltLit(<<NL>> \o KwLine), AltNLLower, AltEnd>>),
       Greedy(KwSnmpServerCommunity),
       Greedy(KwTacacsServerHost) >>

H3CPatterns ==
    << Lazy(KwHeaderLogin, <<AltNLLower, AltLit(<<NL, "#">>), AltEnd>>),
       Lazy(KwLineAux, <<AltLit(<<NL>> \o KwLine), AltNLLower, AltEnd>>),
       Lazy(KwLineVty, <<AltLit(<<NL>> \o KwLine), AltNLLower, AltEnd>>),
       Greedy(KwHwtacacsScheme),
       Greedy(KwSnmpAgentCommunity) >>

HuaweiPatterns ==
    << Lazy(KwUserInterfaceConsole,
            <<AltLit(<<NL>> \o KwUserInterface), AltNLLower, AltEnd>>),
       Lazy(KwUserInterfaceVty,
            <<AltLit(<<NL>> \o KwUserInterface), AltNLLower, AltEnd>>),
       Greedy(KwHwtacacsServer),
       Greedy(KwSnmpAgentCommunity) >>

\* the lookahead alternative alt succeeds in s before position j
LooksAt(s, j, alt) ==
    IF alt.eoi THEN j = Len(s) + 1
    ELSE /\ OccursAt(s, alt.lit, j)
         /\ alt.lower =>
                /\ j + Len(alt.lit) <= Len(s)
                /\ s[j + Len(alt.lit)] \in Lower

Lookahead(s, j, alts) == \E a \in 1..Len(alts) : LooksAt(s, j, alts[a])

\* the last position of the match of pattern p that starts at position i
MatchStop(p, s, i) ==
    LET body == i + Len(p.start)
    IN  IF ~p.lazy THEN Len(s)
        ELSE (CHOOSE j \in body..(Len(s) + 1) :
                  /\ Lookahead(s, j, p.until)
                  /\ \A k \in body..(j - 1) : ~Lookahead(s, k, p.until)) - 1

\* re.findall(p, s, re.MULTILINE | re.DOTALL) from position pos on: the
\* leftmost match, then the matches after it
RECURSIVE FindAll(_, _, _)
FindAll(p, s, pos) ==
    IF \A i \in pos..Len(s) : ~OccursAt(s, p.start, i)
    THEN <<>>
    ELSE LET i == CHOOSE k \in pos..Len(s) :
                      /\ OccursAt(s, p.start, k)
                      /\ \A j \in pos..(k - 1) : ~OccursAt(s, p.start, j)
             e == MatchStop(p, s, i)
         IN  <<[start |-> i, stop |-> e]>> \o FindAll(p, s, e + 1)

\* the loop over the patterns: the matches of all of them, in table order
RECURSIVE ExtendAll(_, _, _)
ExtendAll(patterns, s, n) ==
    IF n > Len(patterns) THEN <<>>
    ELSE LET found == FindAll(patterns[n], s, 1)
         IN  [k \in 1..Len(found) |->
                  [pattern |-> n,
                   start |-> found[k].start, stop |-> found[k].stop]]
             \o ExtendAll(patterns, s, n + 1)

\* the matched texts
Texts(s, spans) == [k \in 1..Len(spans) |-> SubSeq(s, spans[k].start, spans[k].stop)]

\* the spans behind the value an extractor returns
Spans(patterns, cfg) ==
    IF Falsy(cfg) THEN <<>> ELSE ExtendAll(patterns, cfg.val, 1)

\* the matched texts joined by spaces in the place of line breaks
ExtractWith_Spaces(patterns, cfg) ==
    IF Falsy(cfg) THEN Some(<<>>)
    ELSE Some(Join(Texts(cfg.val, Spans(patterns, cfg)), <<" ">>))

\* the body shared by the three extractors
ExtractWith(patterns, cfg) ==
    IF Falsy(cfg) THEN Some(<<>>)
    ELSE Some(Join(Texts(cfg.val, Spans(patterns, cfg)), <<NL>>))

_extract_cisco_sections(cfg) == ExtractWith(CiscoPatterns, cfg)

_extract_h3c_sections(cfg) == ExtractWith(H3CPatterns, cfg)

_extract_huawei_sections(cfg) == ExtractWith(HuaweiPatterns, cfg)

\* the pattern table network_os selects, <<>> when it selects none
PatternsOf(os) ==
    IF os \in {"ios", "nxos", "eos"} THEN CiscoPatterns
    ELSE IF os = "comware" THEN H3CPatterns
    ELSE IF os = "ce" THEN HuaweiPatterns
    ELSE <<>>

\* the dispatch with the Cisco patterns as the fallback
extract_config_sections_CiscoDefault(running_config, os) ==
    IF os = "comware" THEN _extract_h3c_sections(running_config)
    ELSE IF os = "ce" THEN _extract_huawei_sections(running_config)
    ELSE _extract_cisco_sections(running_config)

extract_config_sections(running_config, os) ==
    IF os \in {"ios", "nxos", "eos"} THEN _extract_cisco_sections(running_config)
    ELSE IF os = "comware" THEN _extract_h3c_sections(running_config)
    ELSE IF os = "ce" THEN _extract_huawei_sections(running_config)
    ELSE running_config

-----------------------------------------------------------------------------
(* The inputs of the model.                                                *)

\* the accepted platform tags, and one that is not accepted
SupportedOS == {"ios", "nxos", "eos", "comware", "ce"}
NetworkOS == SupportedOS \cup {"junos"}

\* two tags for the operations that ignore the tag
SomeOS == {"ios", "junos"}

\* "service password-encryption"
LnService ==
    <<"s", "e", "r", "v", "i", "c", "e", " ", "p", "a", "s", "s", "w", "o",
      "r", "d", "-", "e", "n", "c", "r", "y", "p", "t", "i", "o", "n">>

\* "no service password-encryption"
LnNoService ==
    <<"n", "o", " ", "s", "e", "r", "v", "i", "c", "e", " ", "p", "a", "s",
      "s", "w", "o", "r", "d", "-", "e", "n", "c", "r", "y", "p", "t", "i",
      "o", "n">>

\* "line vty 0 4"
LnLineVty ==
    <<"l", "i", "n", "e", " ", "v", "t", "y", " ", "0", " ", "4">>

\* " login"
LnLogin ==
    <<" ", "l", "o", "g", "i", "n">>

\* "!"
LnBang ==
    <<"!">>

\* "banner login x"
LnBanner ==
    <<"b", "a", "n", "n", "e", "r", " ", "l", "o", "g", "i", "n", " ", "x">>

\* "snmp-agent community x"
LnSnmpAgent ==
    <<"s", "n", "m", "p", "-", "a", "g", "e", "n", "t", " ", "c", "o", "m",
      "m", "u", "n", "i", "t", "y", " ", "x">>

\* "user-interface vty 0 4"
LnUserInterface ==
    <<"u", "s", "e", "r", "-", "i", "n", "t", "e", "r", "f", "a", "c", "e",
      " ", "v", "t", "y", " ", "0", " ", "4">>

\* "snmp-server community public RO"
LnSnmpPublic ==
    <<"s", "n", "m", "p", "-", "s", "e", "r", "v", "e", "r", " ", "c", "o",
      "m", "m", "u", "n", "i", "t", "y", " ", "p", "u", "b", "l", "i", "c",
      " ", "R", "O">>

\* "snmp-server community private RO"
LnSnmpPrivate ==
    <<"s", "n", "m", "p", "-", "s", "e", "r", "v", "e", "r", " ", "c", "o",
      "m", "m", "u", "n", "i", "t", "y", " ", "p", "r", "i", "v", "a", "t",
      "e", " ", "R", "O">>

\* "snmp-server host"
LnSnmpHost ==
    <<"s", "n", "m", "p", "-", "s", "e", "r", "v", "e", "r", " ", "h", "o",
      "s", "t">>

\* "tacacs-server host 10.0.0.1"
LnTacacs ==
    <<"t", "a", "c", "a", "c", "s", "-", "s", "e", "r", "v", "e", "r", " ",
      "h", "o", "s", "t", " ", "1", "0", ".", "0", ".", "0", ".", "1">>

\* ""
LnEmpty ==
    <<>>

\* " "
LnBlank ==
    <<" ">>

\* all sequences over S of length at most n
SeqsUpTo(S, n) == UNION {[1..k -> S] : k \in 0..n}

\* configuration texts for normalize_config, character by character
NormChars == {" ", "\t", "\n", "!", "#", "a"}
NormTexts == SeqsUpTo(NormChars, MaxChars)

\* configuration texts for extract_config_sections, line by line
CfgLines == {LnService, LnNoService, LnLineVty, LnLogin, LnBang, LnBanner,
             LnSnmpAgent, LnUserInterface}
CfgTexts == {Join(ls, <<NL>>) : ls \in SeqsUpTo(CfgLines, MaxCfgLines)}

\* line sequences for compare_with_baseline: the two sides share lines,
\* each has lines of a family of the other side, and the baseline has a
\* family of its own
RunningLines == {LnSnmpPublic, LnSnmpPrivate, LnSnmpHost, LnEmpty, LnBlank}
BaselineLines == {LnSnmpPublic, LnSnmpPrivate, LnTacacs, LnBlank}
CmpLines == RunningLines \cup BaselineLines
RunningSeqs == SeqsUpTo(RunningLines, MaxRunning)
BaselineSeqs == SeqsUpTo(BaselineLines, MaxBaseline)

Optional(S) == {None} \cup {Some(v) : v \in S}

-----------------------------------------------------------------------------
(* The calls.                                                              *)

NoDiff == [has_differences |-> FALSE, missing_configs |-> <<>>,
           extra_configs |-> <<>>, different_configs |-> <<>>, summary |-> ""]

NoCall ==
    /\ extracted = None
    /\ matches = <<>>
    /\ lines = <<>>
    /\ relines = <<>>
    /\ diff = NoDiff
    /\ pc = "start"

InitExtract ==
    /\ config \in Optional(CfgTexts)
    /\ network_os \in NetworkOS
    /\ running_config_lines = None
    /\ baseline_lines = None
    /\ NoCall

InitNormalize ==
    /\ config \in Optional(NormTexts)
    /\ network_os \in SomeOS
    /\ running_config_lines = None
    /\ baseline_lines = None
    /\ NoCall

InitCompare ==
    /\ config = None
    /\ network_os \in SomeOS
    /\ running_config_lines \in Optional(RunningSeqs)
    /\ baseline_lines \in Optional(BaselineSeqs)
    /\ NoCall

\* extract_config_sections(config, network_os)
ExtractConfigSections ==
    /\ pc = "start"
    /\ extracted' = extract_config_sections(config, network_os)
    /\ matches' = Spans(PatternsOf(network_os), config)
    /\ pc' = "extracted"
    /\ UNCHANGED <<config, network_os, running_config_lines, baseline_lines,
                   lines, relines, diff>>

\* normalize_config(config, network_os)
NormalizeConfig ==
    /\ pc = "start"
    /\ lines' = normalize_config(config, network_os)
    /\ pc' = "normalized"
    /\ UNCHANGED <<config, network_os, running_config_lines, baseline_lines,
                   extracted, matches, relines, diff>>

\* normalize_config('\n'.join(lines), network_os)
NormalizeAgain ==
    /\ pc = "normalized"
    /\ relines' = normalize_config(Some(Join(lines, <<NL>>)), network_os)
    /\ pc' = "renormalized"
    /\ UNCHANGED <<config, network_os, running_config_lines, baseline_lines,
                   extracted, matches, lines, diff>>

\* compare_with_baseline(running_config_lines, baseline_lines, network_os)
CompareWithBaseline ==
    /\ pc = "start"
    /\ diff' = compare_with_baseline(running_config_lines, baseline_lines,
                                     network_os)
    /\ pc' = "compared"
    /\ UNCHANGED <<config, network_os, running_config_lines, baseline_lines,
                   extracted, matches, lines, relines>>

NextExtract == ExtractConfigSections
NextNormalize == NormalizeConfig \/ NormalizeAgain
NextCompare == CompareWithBaseline

SpecExtract == InitExtract /\ [][NextExtract]_vars
SpecNormalize == InitNormalize /\ [][NextNormalize]_vars
SpecCompare == InitCompare /\ [][NextCompare]_vars

-----------------------------------------------------------------------------
(* Properties of compare_with_baseline, under SpecCompare.                 *)

\* the sequences the comparison works on: an absent one counts as empty
R == IF running_config_lines.none THEN <<>> ELSE running_config_lines.val
B == IF baseline_lines.none THEN <<>> ELSE baseline_lines.val

Compared == pc = "compared"

\* the number of positions of xs that hold x
Count(x, xs) == Cardinality({i \in 1..Len(xs) : xs[i] = x})

\* the number of pairs of different_configs whose baseline side is b
CountPairs(b) ==
    Cardinality({i \in 1..Len(diff.different_configs) :
                     diff.different_configs[i].baseline = b})

\* the leading whitespace-delimited token of a line, <<>> when it has none
LeadingToken(line) ==
    LET solid == {k \in 1..Len(line) : line[k] \notin Whitespace}
    IN  IF solid = {} THEN <<>>
        ELSE LET a == CHOOSE k \in solid : \A j \in solid : k <= j
                 e == CHOOSE k \in a..Len(line) :
                          /\ \A j \in a..k : j \in solid
                          /\ (k = Len(line) \/ (k + 1) \notin solid)
             IN  SubSeq(line, a, e)

\* the positions of R whose line is of the same command family as b
Family(b) == {j \in 1..Len(R) : LeadingToken(R[j]) = LeadingToken(b)}

\* C1: every occurrence of a baseline line falls in exactly one class.  A
\* line that is an element of running has no entry in either list; any other
\* line has one entry per occurrence, all of them in missing_configs or all
\* of them in different_configs; and the two lists together are as long as
\* the number of baseline positions whose line is not an element of running.
C1_ExactlyOneClass ==
    Compared =>
        /\ \A b \in CmpLines :
               IF In(b, R)
               THEN Count(b, diff.missing_configs) = 0 /\ CountPairs(b) = 0
               ELSE \/ /\ Count(b, diff.missing_configs) = Count(b, B)
                       /\ CountPairs(b) = 0
                    \/ /\ Count(b, diff.missing_configs) = 0
                       /\ CountPairs(b) = Count(b, B)
        /\ Len(diff.missing_configs) + Len(diff.different_configs)
               = Cardinality({i \in 1..Len(B) : ~In(B[i], R)})

\* a baseline with a line of each class: exact, different and missing
C1_Witness ==
    /\ Compared
    /\ \E i \in 1..Len(B) : In(B[i], R)
    /\ diff.missing_configs # <<>>
    /\ diff.different_configs # <<>>

\* C2: a baseline line that is not an element of running but has a running
\* line of its command family is paired with the first such running line,
\* once per occurrence, and is not reported missing.
C2_FirstFamilyMatch ==
    Compared =>
        \A i \in 1..Len(B) :
            (~In(B[i], R) /\ Family(B[i]) # {}) =>
                LET first == CHOOSE j \in Family(B[i]) :
                                 \A k \in Family(B[i]) : j <= k
                IN  /\ \A n \in 1..Len(diff.different_configs) :
                           diff.different_configs[n].baseline = B[i] =>
                               diff.different_configs[n].running = R[first]
                    /\ CountPairs(B[i]) = Count(B[i], B)
                    /\ ~In(B[i], diff.missing_configs)

\* the public community string against a running configuration whose first
\* line of the family is the private one, followed by another of the family
C2_Witness ==
    /\ Compared
    /\ In(LnSnmpPublic, B)
    /\ R = <<LnSnmpPrivate, LnSnmpHost>>
    /\ diff.different_configs # <<>>

\* C3: a baseline line is reported missing exactly when it equals no running
\* line and no running line has its leading token; a line without tokens has
\* the empty leading token; nothing else is reported missing.
C3_MissingIff ==
    Compared =>
        /\ \A i \in 1..Len(B) :
               In(B[i], diff.missing_configs)
                   <=> (~In(B[i], R) /\ Family(B[i]) = {})
        /\ \A n \in 1..Len(diff.missing_configs) :
               In(diff.missing_configs[n], B)

\* a tacacs line is missing while a blank baseline line is matched by an
\* empty running line
C3_Witness ==
    /\ Compared
    /\ In(LnTacacs, diff.missing_configs)
    /\ In(LnBlank, B)
    /\ In(LnEmpty, R)
    /\ ~In(LnBlank, R)

\* C4: has_differences is true exactly when one of the two lists is not
\* empty, also for absent inputs; an empty or absent baseline gives false.
C4_HasDifferences ==
    Compared =>
        /\ diff.has_differences
               <=> (Len(diff.missing_configs) > 0
                        \/ Len(diff.different_configs) > 0)
        /\ Falsy(baseline_lines) => ~diff.has_differences

\* an absent running sequence against a non-empty baseline
C4_Witness ==
    /\ Compared
    /\ running_config_lines = None
    /\ diff.has_differences

\* the clauses of the summary, with the counts in decimal
MissingClause(m) == "Missing " \o ToString(m) \o " baseline configuration(s)"
DifferentClause(d) == "Found " \o ToString(d) \o " configuration difference(s)"

\* C5: the summary depends on the two counts only: the missing clause, the
\* different clause, both with the missing clause first and "; " between,
\* or the fixed text when both counts are zero.
C5_Summary ==
    Compared =>
        LET m == Len(diff.missing_configs)
            d == Len(diff.different_configs)
        IN  diff.summary =
                IF m > 0 /\ d = 0 THEN MissingClause(m)
                ELSE IF m = 0 /\ d > 0 THEN DifferentClause(d)
                ELSE IF m > 0 /\ d > 0
                     THEN MissingClause(m) \o "; " \o DifferentClause(d)
                ELSE "Configuration matches baseline"

\* both clauses are present
C5_Witness ==
    /\ Compared
    /\ Len(diff.missing_configs) > 0
    /\ Len(diff.different_configs) > 1

-----------------------------------------------------------------------------
(* Properties of normalize_config, under SpecNormalize.                    *)

\* the text given to normalize_config: an absent one counts as empty
Text == IF config.none THEN <<>> ELSE config.val

\* the k-th smallest element of a set of numbers
Nth(S, k) == CHOOSE x \in S : Cardinality({y \in S : y < x}) = k - 1

\* the positions of the line breaks of Text, and its lines: the k-th line
\* lies between the (k-1)-th and the k-th line break
Breaks == {i \in 1..Len(Text) : Text[i] = NL}
NumPieces == Cardinality(Breaks) + 1
Piece(k) ==
    LET lo == IF k = 1 THEN 1 ELSE Nth(Breaks, k - 1) + 1
        hi == IF k = NumPieces THEN Len(Text) ELSE Nth(Breaks, k) - 1
    IN  SubSeq(Text, lo, hi)

\* a line without its leading and trailing whitespace
Trim(line) ==
    LET solid == {k \in 1..Len(line) : line[k] \notin Whitespace}
    IN  IF solid = {} THEN <<>>
        ELSE SubSeq(line, Nth(solid, 1), Nth(solid, Cardinality(solid)))

\* the lines that are neither blank nor comments
Retained == {k \in 1..NumPieces :
                 Trim(Piece(k)) # <<>> /\ Trim(Piece(k))[1] \notin {"!", "#"}}

\* C6: normalizing the joined result of a normalization gives that result
\* again, also when the result is the empty sequence.
C6_Idempotent == pc = "renormalized" => relines = lines

\* a text that normalization changes, with two lines left
C6_Witness ==
    /\ pc = "renormalized"
    /\ Len(lines) = 2
    /\ Join(lines, <<NL>>) # Text

\* C7: the result is the retained lines of the text, trimmed, in their
\* order and with duplicates; no line of the result is empty, starts with
\* "!" or "#" or has whitespace at either end; an empty or absent text
\* gives the empty sequence.
C7_RetainedLines ==
    pc \in {"normalized", "renormalized"} =>
        /\ Len(lines) = (IF Text = <<>> THEN 0 ELSE Cardinality(Retained))
        /\ \A j \in 1..Len(lines) :
               /\ lines[j] = Trim(Piece(Nth(Retained, j)))
               /\ lines[j] # <<>>
               /\ lines[j][1] \notin {"!", "#"} \cup Whitespace
               /\ lines[j][Len(lines[j])] \notin Whitespace

\* a duplicated line is kept twice and the comment between them is dropped
C7_Witness ==
    /\ pc = "normalized"
    /\ NumPieces = 3
    /\ Len(lines) = 2
    /\ lines[1] = lines[2]
    /\ StartsWith(Trim(Piece(2)), <<"!">>)

-----------------------------------------------------------------------------
(* Properties of extract_config_sections, under SpecExtract.               *)

Extracted == pc = "extracted"

\* l occurs in s as a contiguous substring
IsSubstring(l, s) == \E i \in 1..(Len(s) + 1) : OccursAt(s, l, i)

\* C8: with a supported tag an empty or absent text gives the empty text;
\* with any other tag the text is returned as it was given.
C8_EmptyAndPassThrough ==
    Extracted =>
        /\ (network_os \in SupportedOS /\ (config.none \/ Len(config.val) = 0))
               => extracted = Some(<<>>)
        /\ network_os \notin SupportedOS => extracted = config

\* an unsupported tag with a text that the Cisco patterns would cut down
C8_Witness ==
    /\ Extracted
    /\ network_os \notin SupportedOS
    /\ ~config.none
    /\ extracted.val = LnLineVty \o <<NL>> \o LnNoService

\* C9: with a supported tag the result is the matched texts joined by line
\* breaks, in table order and then in match order, and every line of the
\* result is a contiguous substring of the text.
C9_NoFabrication ==
    (Extracted /\ network_os \in SupportedOS) =>
        /\ \A k \in 1..(Len(matches) - 1) :
               \/ matches[k].pattern < matches[k + 1].pattern
               \/ /\ matches[k].pattern = matches[k + 1].pattern
                  /\ matches[k].stop < matches[k + 1].start
        /\ \A k \in 1..Len(matches) :
               IsSubstring(SubSeq(Text, matches[k].start, matches[k].stop),
                           extracted.val)
        /\ LET out == SplitOn(extracted.val, NL)
           IN  \A n \in 1..Len(out) : IsSubstring(out[n], Text)

\* matches of two patterns, given back in table order and not in text order
C9_Witness ==
    /\ Extracted
    /\ network_os \in SupportedOS
    /\ Len(matches) >= 2
    /\ matches[1].pattern < matches[2].pattern
    /\ matches[2].start < matches[1].start

\* position i of s is the beginning of a line
LineStart(s, i) == i = 1 \/ s[i - 1] = NL

\* the section boundaries of pattern p: the alternatives of its lookahead
\* other than the end of the text; for a pattern without one, a line break
\* followed by a lower-case letter
Boundary(p, s, j) ==
    IF p.lazy
    THEN \E a \in 1..Len(p.until) : ~p.until[a].eoi /\ LooksAt(s, j, p.until[a])
    ELSE LooksAt(s, j, AltNLLower)

\* C10: every match starts at the beginning of a line of the text and ends
\* right before the first section boundary after its keyword, or at the end
\* of the text when no boundary follows.
C10_AnchoredAndBounded ==
    Extracted =>
        \A k \in 1..Len(matches) :
            LET p == PatternsOf(network_os)[matches[k].pattern]
                body == matches[k].start + Len(p.start)
                bounds == {j \in body..Len(Text) : Boundary(p, Text, j)}
            IN  /\ LineStart(Text, matches[k].start)
                /\ matches[k].stop =
                       IF bounds = {} THEN Len(Text) ELSE Nth(bounds, 1) - 1

====
